---- MODULE Spec2Model ----
(***************************************************************************)
(* A model of array_extras.py: shift_2d and add_border_2d, together with   *)
(* the NumPy array primitives they are written in (basic slicing with      *)
(* clamping, np.tile, np.vstack / np.hstack, and slice assignment with     *)
(* broadcasting, which raises ValueError on a shape mismatch).             *)
(*                                                                         *)
(* A 2D array is a record [nr, nc, at]: its shape and its cells, indexed   *)
(* from 0 as in the source.                                                *)
(***************************************************************************)
EXTENDS Integers, Sequences, FiniteSets, TLC

\* ---------------------------------------------------------------- bounds
MaxRows == 3
MaxCols == 3
MaxPeriod == 2
MaxShift == 3
MaxStride == 3
MaxBorder == 3

\* first value of the demonstration grid, np.arange(1, ...)
FirstValue == 1

\* ------------------------------------------------------- NumPy primitives
Max2(a, b) == IF a > b THEN a ELSE b

Min2(a, b) == IF a < b THEN a ELSE b

\* Python's abs()
Abs(x) == IF x < 0 THEN -x ELSE x

\* the index range of an axis of length n
Ax(n) == 0..(n - 1)

\* an array of shape (nr, nc) with cells at, a function on Ax(nr) \X Ax(nc)
MkGrid(nr, nc, at) == [nr |-> nr, nc |-> nc, at |-> at]

Cell(g, i, j) == g.at[<<i, j>>]

\* np.zeros / np.zeros_like
Zeros(nr, nc) == MkGrid(nr, nc, [i \in Ax(nr), j \in Ax(nc) |-> 0])

\* a slice bound resolved against an axis of length n: a negative bound
\* counts from the end, and every bound is clamped into 0..n
NormIdx(i, n) == IF i < 0 THEN Max2(i + n, 0) ELSE Min2(i, n)

\* a[start:stop], a[start:], a[:stop], a[:] as the pair <<lo, hi>>, lo <= hi
Sl(start, stop, n) ==
    LET lo == NormIdx(start, n)
        hi == NormIdx(stop, n)
    IN  <<lo, Max2(lo, hi)>>

SlFrom(start, n) == <<NormIdx(start, n), n>>

SlTo(stop, n) == <<0, NormIdx(stop, n)>>

SlAll(n) == <<0, n>>

\* g[rs, cs] read as a value
Take(g, rs, cs) ==
    MkGrid(rs[2] - rs[1], cs[2] - cs[1],
           [i \in Ax(rs[2] - rs[1]), j \in Ax(cs[2] - cs[1]) |->
               Cell(g, rs[1] + i, cs[1] + j)])

\* np.tile(g, (qr, qc))
Tile(g, qr, qc) ==
    MkGrid(g.nr * qr, g.nc * qc,
           [i \in Ax(g.nr * qr), j \in Ax(g.nc * qc) |->
               Cell(g, i % g.nr, j % g.nc)])

\* np.vstack((a, b)) for arrays of equal column count
VStack(a, b) ==
    MkGrid(a.nr + b.nr, a.nc,
           [i \in Ax(a.nr + b.nr), j \in Ax(a.nc) |->
               IF i < a.nr THEN Cell(a, i, j) ELSE Cell(b, i - a.nr, j)])

\* np.hstack((a, b)) for arrays of equal row count
HStack(a, b) ==
    MkGrid(a.nr, a.nc + b.nc,
           [i \in Ax(a.nr), j \in Ax(a.nc + b.nc) |->
               IF j < a.nc THEN Cell(a, i, j) ELSE Cell(b, i, j - a.nc)])

\* the outcome of a statement: an array, or a raised ValueError
Ok(g) == [ok |-> TRUE, g |-> g]

Raise == [ok |-> FALSE, g |-> Zeros(0, 0)]

\* can an array of shape (snr, snc) be broadcast into shape (tnr, tnc)
Broadcastable(snr, snc, tnr, tnc) ==
    /\ (snr = tnr \/ snr = 1)
    /\ (snc = tnc \/ snc = 1)

\* target[rs, cs] = src
Assign(target, rs, cs, src) ==
    LET tnr == rs[2] - rs[1]
        tnc == cs[2] - cs[1]
    IN  IF Broadcastable(src.nr, src.nc, tnr, tnc)
        THEN Ok(MkGrid(target.nr, target.nc,
                 [i \in Ax(target.nr), j \in Ax(target.nc) |->
                    IF /\ rs[1] <= i /\ i < rs[2]
                       /\ cs[1] <= j /\ j < cs[2]
                    THEN Cell(src,
                              IF src.nr = 1 THEN 0 ELSE i - rs[1],
                              IF src.nc = 1 THEN 0 ELSE j - cs[1])
                    ELSE Cell(target, i, j)]))
        ELSE Raise

\* the tile count without the round-up for a partial block
QuotFloor(n, stride) == Abs(n) \div stride

\* quot = abs(n) // stride, plus one when n % stride is not zero
Quot(n, stride) ==
    LET quot == Abs(n) \div stride
        rem == n % stride
    IN  IF rem # 0 THEN quot + 1 ELSE quot

\* ------------------------------------------------------------- shift_2d
\* the downward block cropped to its first rows instead of its last
RowBlockDownLeading(arr, shift_row, stride, q) ==
    LET tiled == Tile(Take(arr, SlTo(stride, arr.nr), SlAll(arr.nc)), q, 1)
    IN  Take(tiled, SlTo(shift_row, tiled.nr), SlAll(tiled.nc))

\* stride_arr of the downward shift: the first `stride` rows tiled quot
\* times, cropped to its last shift_row rows
RowBlockDown(arr, shift_row, stride, q) ==
    LET tiled == Tile(Take(arr, SlTo(stride, arr.nr), SlAll(arr.nc)), q, 1)
    IN  Take(tiled, SlFrom(-shift_row, tiled.nr), SlAll(tiled.nc))

\* stride_arr of the upward shift: the last `stride` rows tiled quot times,
\* cropped to its first -shift_row rows
RowBlockUp(arr, shift_row, stride, q) ==
    LET tiled == Tile(Take(arr, SlFrom(-stride, arr.nr), SlAll(arr.nc)), q, 1)
    IN  Take(tiled, SlTo(-shift_row, tiled.nr), SlAll(tiled.nc))

\* the zero-filled downward shift reading arr[shift_row:, :]
RowZeroDownNoShift(arr, shift_row) ==
    Assign(Zeros(arr.nr, arr.nc), SlFrom(shift_row, arr.nr), SlAll(arr.nc),
           Take(arr, SlFrom(shift_row, arr.nr), SlAll(arr.nc)))

\* row_arr[shift_row:, :] = arr[:-shift_row, :]
RowZeroDown(arr, shift_row) ==
    Assign(Zeros(arr.nr, arr.nc), SlFrom(shift_row, arr.nr), SlAll(arr.nc),
           Take(arr, SlTo(-shift_row, arr.nr), SlAll(arr.nc)))

\* row_arr[:shift_row, :] = arr[-shift_row:, :]
RowZeroUp(arr, shift_row) ==
    Assign(Zeros(arr.nr, arr.nc), SlTo(shift_row, arr.nr), SlAll(arr.nc),
           Take(arr, SlFrom(-shift_row, arr.nr), SlAll(arr.nc)))

\* the value of quot after the row pass (it is only bound when stride > 0)
RowQuot(shift_row, stride) == IF stride > 0 THEN Quot(shift_row, stride) ELSE 0

\* the row pass: row_arr, or a raised ValueError
ShiftRowPass(arr, shift_row, stride) ==
    LET q == RowQuot(shift_row, stride)
    IN  IF shift_row > 0
        THEN IF stride > 0
             THEN Ok(VStack(RowBlockDown(arr, shift_row, stride, q),
                            Take(arr, SlTo(-shift_row, arr.nr), SlAll(arr.nc))))
             ELSE RowZeroDown(arr, shift_row)
        ELSE IF shift_row < 0
        THEN IF stride > 0
             THEN Ok(VStack(Take(arr, SlFrom(-shift_row, arr.nr), SlAll(arr.nc)),
                            RowBlockUp(arr, shift_row, stride, q)))
             ELSE RowZeroUp(arr, shift_row)
        ELSE Assign(Zeros(arr.nr, arr.nc), SlAll(arr.nr), SlAll(arr.nc),
                    Take(arr, SlAll(arr.nr), SlAll(arr.nc)))

\* stride_arr of the rightward shift
ColBlockRight(row_arr, shift_col, stride, q) ==
    LET tiled == Tile(Take(row_arr, SlAll(row_arr.nr), SlTo(stride, row_arr.nc)), 1, q)
    IN  Take(tiled, SlAll(tiled.nr), SlFrom(-shift_col, tiled.nc))

\* stride_arr of the leftward shift
ColBlockLeft(row_arr, shift_col, stride, q) ==
    LET tiled == Tile(Take(row_arr, SlAll(row_arr.nr), SlFrom(-stride, row_arr.nc)), 1, q)
    IN  Take(tiled, SlAll(tiled.nr), SlTo(-shift_col, tiled.nc))

\* the zero-filled rightward shift reading arr instead of row_arr
ColZeroRightFromArr(arr, row_arr, shift_col) ==
    Assign(Zeros(arr.nr, arr.nc), SlAll(arr.nr), SlFrom(shift_col, arr.nc),
           Take(arr, SlAll(arr.nr), SlTo(-shift_col, arr.nc)))

\* new_arr[:, shift_col:] = row_arr[:, :-shift_col]
ColZeroRight(arr, row_arr, shift_col) ==
    Assign(Zeros(arr.nr, arr.nc), SlAll(arr.nr), SlFrom(shift_col, arr.nc),
           Take(row_arr, SlAll(row_arr.nr), SlTo(-shift_col, row_arr.nc)))

\* new_arr[:, :shift_col] = row_arr[:, -shift_col:]
ColZeroLeft(arr, row_arr, shift_col) ==
    Assign(Zeros(arr.nr, arr.nc), SlAll(arr.nr), SlTo(shift_col, arr.nc),
           Take(row_arr, SlAll(row_arr.nr), SlFrom(-shift_col, row_arr.nc)))

\* the value of quot after the column pass
ColQuot(shift_col, stride) == IF stride > 0 THEN Quot(shift_col, stride) ELSE 0

\* the column pass on the row-shifted intermediate: new_arr, or ValueError
ShiftColPass(arr, row_arr, shift_col, stride) ==
    LET q == ColQuot(shift_col, stride)
    IN  IF shift_col > 0
        THEN IF stride > 0
             THEN Ok(HStack(ColBlockRight(row_arr, shift_col, stride, q),
                            Take(row_arr, SlAll(row_arr.nr),
                                 SlTo(-shift_col, row_arr.nc))))
             ELSE ColZeroRight(arr, row_arr, shift_col)
        ELSE IF shift_col < 0
        THEN IF stride > 0
             THEN Ok(HStack(Take(row_arr, SlAll(row_arr.nr),
                                 SlFrom(-shift_col, row_arr.nc)),
                            ColBlockLeft(row_arr, shift_col, stride, q)))
             ELSE ColZeroLeft(arr, row_arr, shift_col)
        ELSE Assign(Zeros(arr.nr, arr.nc), SlAll(arr.nr), SlAll(arr.nc),
                    Take(row_arr, SlAll(row_arr.nr), SlAll(row_arr.nc)))

\* shift_2d as a function of its arguments
shift_2d(arr, shifts, stride) ==
    LET r == ShiftRowPass(arr, shifts[1], stride)
    IN  IF r.ok THEN ShiftColPass(arr, r.g, shifts[2], stride) ELSE Raise

\* -------------------------------------------------------- add_border_2d
\* new_arr = np.zeros((new_x, new_y))
BorderAllocate(arr, border_width) ==
    Zeros(arr.nr + border_width * 2, arr.nc + border_width * 2)

\* new_arr[border_width:-border_width, border_width:-border_width] = arr
BorderCentre(new_arr, arr, border_width) ==
    Assign(new_arr, Sl(border_width, -border_width, new_arr.nr),
           Sl(border_width, -border_width, new_arr.nc), arr)

\* Fill the top
FillTop(new_arr, border_width, stride, q) ==
    LET arr_t == Take(new_arr, Sl(border_width, border_width + stride, new_arr.nr),
                      SlAll(new_arr.nc))
        tiled == Tile(arr_t, q, 1)
    IN  Assign(new_arr, SlTo(border_width, new_arr.nr), SlAll(new_arr.nc),
               Take(tiled, SlTo(border_width, tiled.nr), SlAll(tiled.nc)))

\* the bottom border taking the trailing crop of the tiled block
FillBottomTrailing(new_arr, border_width, stride, q) ==
    LET arr_b == Take(new_arr,
                      Sl(-(border_width + stride), -border_width, new_arr.nr),
                      SlAll(new_arr.nc))
        tiled == Tile(arr_b, q, 1)
    IN  Assign(new_arr, SlFrom(-border_width, new_arr.nr), SlAll(new_arr.nc),
               Take(tiled, SlFrom(-border_width, tiled.nr), SlAll(tiled.nc)))

\* Fill the bottom
FillBottom(new_arr, border_width, stride, q) ==
    LET arr_b == Take(new_arr,
                      Sl(-(border_width + stride), -border_width, new_arr.nr),
                      SlAll(new_arr.nc))
        tiled == Tile(arr_b, q, 1)
    IN  Assign(new_arr, SlFrom(-border_width, new_arr.nr), SlAll(new_arr.nc),
               Take(tiled, SlTo(border_width, tiled.nr), SlAll(tiled.nc)))

\* the left border written on the interior rows only
FillLeftInterior(new_arr, border_width, stride, q) ==
    LET rs == Sl(border_width, -border_width, new_arr.nr)
        arr_l == Take(new_arr, rs,
                      Sl(border_width, border_width + stride, new_arr.nc))
        tiled == Tile(arr_l, 1, q)
    IN  Assign(new_arr, rs, SlTo(border_width, new_arr.nc),
               Take(tiled, SlAll(tiled.nr), SlTo(border_width, tiled.nc)))

\* Fill left
FillLeft(new_arr, border_width, stride, q) ==
    LET arr_l == Take(new_arr, SlAll(new_arr.nr),
                      Sl(border_width, border_width + stride, new_arr.nc))
        tiled == Tile(arr_l, 1, q)
    IN  Assign(new_arr, SlAll(new_arr.nr), SlTo(border_width, new_arr.nc),
               Take(tiled, SlAll(tiled.nr), SlTo(border_width, tiled.nc)))

\* Fill the right
FillRight(new_arr, border_width, stride, q) ==
    LET arr_b == Take(new_arr, SlAll(new_arr.nr),
                      Sl(-(border_width + stride), -border_width, new_arr.nc))
        tiled == Tile(arr_b, 1, q)
    IN  Assign(new_arr, SlAll(new_arr.nr), SlFrom(-border_width, new_arr.nc),
               Take(tiled, SlAll(tiled.nr), SlTo(border_width, tiled.nc)))

\* ------------------------------------------------------------ the inputs
\* np.arange(FirstValue, ...).reshape(nr, nc): every cell distinct, none zero
ArangeGrid(nr, nc) ==
    MkGrid(nr, nc, [i \in Ax(nr), j \in Ax(nc) |-> FirstValue + i * nc + j])

\* a mosaic whose rows and columns both repeat with period p
PeriodicGrid(nr, nc, p) ==
    MkGrid(nr, nc,
           [i \in Ax(nr), j \in Ax(nc) |-> FirstValue + (i % p) * p + (j % p)])

Grids ==
    {ArangeGrid(nr, nc) : nr \in 1..MaxRows, nc \in 1..MaxCols}
    \cup {PeriodicGrid(nr, nc, p) :
             nr \in 1..MaxRows, nc \in 1..MaxCols, p \in 1..MaxPeriod}

ShiftValues == (-MaxShift)..MaxShift

StrideValues == (-1)..MaxStride

BorderValues == 0..MaxBorder

\* ------------------------------------------------------ the state machine
VARIABLES op, arr, shifts, border_width, stride, pc, quot, row_arr, new_arr, ret

vars == <<op, arr, shifts, border_width, stride, pc, quot, row_arr, new_arr, ret>>

NoGrid == Zeros(0, 0)

Init ==
    /\ op \in {"shift_2d", "add_border_2d"}
    /\ arr \in Grids
    /\ stride \in StrideValues
    /\ IF op = "shift_2d"
       THEN /\ shifts \in ShiftValues \X ShiftValues
            /\ border_width = 0
            /\ pc = "row_pass"
       ELSE /\ shifts = <<0, 0>>
            /\ border_width \in BorderValues
            /\ pc = "allocate"
    /\ quot = 0
    /\ row_arr = NoGrid
    /\ new_arr = NoGrid
    /\ ret = NoGrid

\* shift_2d, lines 44-66
ShiftRows ==
    /\ pc = "row_pass"
    /\ LET r == ShiftRowPass(arr, shifts[1], stride)
       IN  /\ row_arr' = r.g
           /\ pc' = IF r.ok THEN "col_pass" ELSE "raised"
    /\ quot' = RowQuot(shifts[1], stride)
    /\ UNCHANGED <<op, arr, shifts, border_width, stride, new_arr, ret>>

\* shift_2d, lines 68-89
ShiftCols ==
    /\ pc = "col_pass"
    /\ LET r == ShiftColPass(arr, row_arr, shifts[2], stride)
       IN  /\ new_arr' = r.g
           /\ pc' = IF r.ok THEN "shift_return" ELSE "raised"
    /\ quot' = ColQuot(shifts[2], stride)
    /\ UNCHANGED <<op, arr, shifts, border_width, stride, row_arr, ret>>

\* shift_2d, line 91
ShiftReturn ==
    /\ pc = "shift_return"
    /\ ret' = new_arr
    /\ pc' = "done"
    /\ UNCHANGED <<op, arr, shifts, border_width, stride, quot, row_arr, new_arr>>

\* add_border_2d, lines 119-122
BorderAlloc ==
    /\ pc = "allocate"
    /\ new_arr' = BorderAllocate(arr, border_width)
    /\ pc' = "centre"
    /\ UNCHANGED <<op, arr, shifts, border_width, stride, quot, row_arr, ret>>

\* add_border_2d, line 124
BorderCopy ==
    /\ pc = "centre"
    /\ LET r == BorderCentre(new_arr, arr, border_width)
       IN  /\ new_arr' = r.g
           /\ pc' = IF r.ok THEN "stride" ELSE "raised"
    /\ UNCHANGED <<op, arr, shifts, border_width, stride, quot, row_arr, ret>>

\* add_border_2d, lines 125-130
BorderStride ==
    /\ pc = "stride"
    /\ IF stride > 0
       THEN /\ quot' = Quot(border_width, stride)
            /\ pc' = "top"
       ELSE /\ quot' = quot
            /\ pc' = "border_return"
    /\ UNCHANGED <<op, arr, shifts, border_width, stride, row_arr, new_arr, ret>>

\* add_border_2d, lines 132-136
BorderTop ==
    /\ pc = "top"
    /\ LET r == FillTop(new_arr, border_width, stride, quot)
       IN  /\ new_arr' = r.g
           /\ pc' = IF r.ok THEN "bottom" ELSE "raised"
    /\ UNCHANGED <<op, arr, shifts, border_width, stride, quot, row_arr, ret>>

\* add_border_2d, lines 137-141
BorderBottom ==
    /\ pc = "bottom"
    /\ LET r == FillBottom(new_arr, border_width, stride, quot)
       IN  /\ new_arr' = r.g
           /\ pc' = IF r.ok THEN "left" ELSE "raised"
    /\ UNCHANGED <<op, arr, shifts, border_width, stride, quot, row_arr, ret>>

\* add_border_2d, lines 142-144
BorderLeft ==
    /\ pc = "left"
    /\ LET r == FillLeft(new_arr, border_width, stride, quot)
       IN  /\ new_arr' = r.g
           /\ pc' = IF r.ok THEN "right" ELSE "raised"
    /\ UNCHANGED <<op, arr, shifts, border_width, stride, quot, row_arr, ret>>

\* add_border_2d, lines 145-147
BorderRight ==
    /\ pc = "right"
    /\ LET r == FillRight(new_arr, border_width, stride, quot)
       IN  /\ new_arr' = r.g
           /\ pc' = IF r.ok THEN "border_return" ELSE "raised"
    /\ UNCHANGED <<op, arr, shifts, border_width, stride, quot, row_arr, ret>>

\* add_border_2d, line 149
BorderReturn ==
    /\ pc = "border_return"
    /\ ret' = new_arr
    /\ pc' = "done"
    /\ UNCHANGED <<op, arr, shifts, border_width, stride, quot, row_arr, new_arr>>

Next ==
    \/ ShiftRows
    \/ ShiftCols
    \/ ShiftReturn
    \/ BorderAlloc
    \/ BorderCopy
    \/ BorderStride
    \/ BorderTop
    \/ BorderBottom
    \/ BorderLeft
    \/ BorderRight
    \/ BorderReturn

Spec == Init /\ [][Next]_vars

\* ------------------------------------------------------------ properties
Finished == pc \in {"done", "raised"}

ShiftDone == op = "shift_2d" /\ pc = "done"

BorderDone == op = "add_border_2d" /\ pc = "done"

\* |shift_row| < rows and |shift_col| < cols
InRange == Abs(shifts[1]) < arr.nr /\ Abs(shifts[2]) < arr.nc

SameShape(a, b) == a.nr = b.nr /\ a.nc = b.nc

\* row i of a equals row k of b on the columns they are compared on:
\* column offa + j of a against column j of b, for every column j of b
RowEq(a, i, offa, b, k) == \A j \in 0..(b.nc - 1): Cell(a, i, offa + j) = Cell(b, k, j)

\* column j of a (rows offa.. ) equals column l of b
ColEq(a, j, offa, b, l) == \A i \in 0..(b.nr - 1): Cell(a, offa + i, j) = Cell(b, i, l)

\* the rows and the columns of g repeat with period p
IsPeriodic(g, p) ==
    \A i \in 0..(g.nr - 1), j \in 0..(g.nc - 1):
        /\ (i + p < g.nr => Cell(g, i + p, j) = Cell(g, i, j))
        /\ (j + p < g.nc => Cell(g, i, j + p) = Cell(g, i, j))

\* C1: add_border_2d with 0 <= stride <= min(rows, cols) and any border
\* width b >= 0, b = 0 included, returns a (rows + 2b) x (cols + 2b) grid
\* whose centred region equals the input cell for cell.
C1_BorderCentred ==
    (/\ op = "add_border_2d"
     /\ Finished
     /\ 0 <= stride
     /\ stride <= Min2(arr.nr, arr.nc))
    => /\ pc = "done"
       /\ ret.nr = arr.nr + 2 * border_width
       /\ ret.nc = arr.nc + 2 * border_width
       /\ \A i \in 0..(arr.nr - 1), j \in 0..(arr.nc - 1):
              Cell(ret, border_width + i, border_width + j) = Cell(arr, i, j)

\* C2: with stride = 0 and an in-range shift (sr, sc), shift_2d returns the
\* grid whose cell (i, j) is g[i - sr][j - sc] where that cell exists and 0
\* everywhere else: vacated cells are zero and nothing wraps around.
C2_ZeroFillShift ==
    (op = "shift_2d" /\ Finished /\ stride = 0 /\ InRange)
    => /\ pc = "done"
       /\ SameShape(ret, arr)
       /\ \A i \in 0..(arr.nr - 1), j \in 0..(arr.nc - 1):
              Cell(ret, i, j) =
                  IF /\ 0 <= i - shifts[1] /\ i - shifts[1] < arr.nr
                     /\ 0 <= j - shifts[2] /\ j - shifts[2] < arr.nc
                  THEN Cell(arr, i - shifts[1], j - shifts[2])
                  ELSE 0

C2_Witness ==
    /\ ShiftDone /\ stride = 0 /\ InRange
    /\ shifts[1] > 0 /\ shifts[2] < 0
    /\ arr.nr = MaxRows /\ arr.nc = MaxCols

\* C3: with 1 <= stride <= rows, shift_col = 0 and 0 < |shift_row| < rows the
\* vacated rows continue the source block periodically.  Shift s > 0: row i
\* is input row i - s for i >= s and input row (i - s) mod stride for i < s.
\* Shift -m < 0: row i is input row i + m for i < rows - m and row
\* rows - m + k is input row rows - stride + (k mod stride).  The tile count
\* left by the row pass is ceil(|shift_row| / stride) for both signs.
C3_StridedRowShift ==
    (/\ op = "shift_2d"
     /\ 1 <= stride /\ stride <= arr.nr
     /\ shifts[2] = 0
     /\ shifts[1] # 0 /\ Abs(shifts[1]) < arr.nr)
    => /\ pc # "raised"
       /\ pc = "col_pass" =>
              /\ quot * stride >= Abs(shifts[1])
              /\ (quot - 1) * stride < Abs(shifts[1])
       /\ pc = "done" =>
              /\ SameShape(ret, arr)
              /\ \A i \in 0..(arr.nr - 1):
                     LET s == shifts[1]
                         m == -shifts[1]
                     IN  IF s > 0
                         THEN IF i >= s
                              THEN RowEq(ret, i, 0, arr, i - s)
                              ELSE RowEq(ret, i, 0, arr, (i - s) % stride)
                         ELSE IF i < arr.nr - m
                              THEN RowEq(ret, i, 0, arr, i + m)
                              ELSE RowEq(ret, i, 0, arr,
                                         arr.nr - stride
                                           + ((i - (arr.nr - m)) % stride))

C3_Witness ==
    /\ ShiftDone /\ shifts[2] = 0
    /\ stride = 2 /\ shifts[1] = 1 /\ arr.nr = 3
    /\ arr = ArangeGrid(arr.nr, arr.nc)

\* C4: for a grid whose rows and columns repeat with period p, a stride that
\* is a positive multiple of p with stride <= min(rows, cols), and any border
\* width b >= 1, add_border_2d continues the pattern across all four
\* boundaries: out[k][l] = g[(k - b) mod p][(l - b) mod p] for every cell.
C4_BorderPeriodic ==
    \A p \in 1..Max2(stride, 1):
        (/\ op = "add_border_2d"
         /\ Finished
         /\ IsPeriodic(arr, p)
         /\ stride > 0 /\ stride % p = 0
         /\ stride <= Min2(arr.nr, arr.nc)
         /\ border_width >= 1)
        => /\ pc = "done"
           /\ \A k \in 0..(arr.nr + 2 * border_width - 1),
                 l \in 0..(arr.nc + 2 * border_width - 1):
                  Cell(ret, k, l) =
                      Cell(arr, (k - border_width) % p, (l - border_width) % p)

\* C5: for an in-range shift of any signs and any stride >= 0, shift_2d
\* returns a rows x cols grid, and the row pass's intermediate grid is
\* rows x cols too.
C5_ShiftKeepsSize ==
    (op = "shift_2d" /\ InRange /\ stride >= 0)
    => /\ pc # "raised"
       /\ pc \in {"col_pass", "shift_return", "done"} => SameShape(row_arr, arr)
       /\ pc \in {"shift_return", "done"} => SameShape(new_arr, arr)
       /\ pc = "done" => SameShape(ret, arr)

C5_Witness ==
    /\ ShiftDone /\ InRange
    /\ shifts[1] < 0 /\ shifts[2] > 0
    /\ stride = 2 /\ Abs(shifts[1]) = 1 /\ Abs(shifts[2]) = 1

\* C6: an out-of-range shift (|shift_row| >= rows or |shift_col| >= cols),
\* for any stride >= 0, ends in an error: shift_2d never returns a grid.
C6_OutOfRangeRaises ==
    (op = "shift_2d" /\ ~InRange /\ stride >= 0) => pc # "done"

\* C7: an invalid stride (stride < 0, or larger than the rows or the columns
\* of the grid) ends in an error and no grid is returned, for shift_2d (with
\* an in-range shift) and for add_border_2d (with a border width >= 1).
C7_InvalidStrideRaises ==
    (/\ stride < 0 \/ stride > arr.nr \/ stride > arr.nc
     /\ op = "shift_2d" => InRange
     /\ op = "add_border_2d" => border_width >= 1)
    => pc # "done"

\* ceil(n / d) for n >= 0, d >= 1
Ceil(n, d) == (n + d - 1) \div d

\* the precondition shared by the claims about the replicated border
StridedBorder ==
    /\ op = "add_border_2d"
    /\ 1 <= stride /\ stride <= Min2(arr.nr, arr.nc)
    /\ border_width >= 1

\* top border row k / left border column k is the leading part of the tiled
\* first `stride` rows / columns of the grid
TopLeftLeading ==
    \A k \in 0..(border_width - 1):
        /\ RowEq(ret, k, border_width, arr, k % stride)
        /\ ColEq(ret, k, border_width, arr, k % stride)

\* C8 as claimed: in add_border_2d with 1 <= stride <= min(rows, cols) and
\* b >= 1 the top and left borders receive the leading b rows/columns of the
\* tiled block and the bottom and right borders its trailing b rows/columns:
\* bottom row b + rows + k is grid row
\* rows - stride + ((ceil(b/stride) * stride - b + k) mod stride).
C8_TrailingBottomRight ==
    (StridedBorder /\ Finished)
    => /\ pc = "done"
       /\ TopLeftLeading
       /\ \A k \in 0..(border_width - 1):
              LET t == (Ceil(border_width, stride) * stride - border_width + k)
                           % stride
              IN  /\ RowEq(ret, border_width + arr.nr + k, border_width,
                           arr, arr.nr - stride + t)
                  /\ ColEq(ret, border_width + arr.nc + k, border_width,
                           arr, arr.nc - stride + t)

\* C8 amended: all four borders receive the leading b rows/columns of their
\* tiled block: top row k is grid row k mod stride, and bottom row
\* b + rows + k is grid row rows - stride + (k mod stride); likewise for the
\* left and right columns.
C8_LeadingOnEveryEdge ==
    (StridedBorder /\ Finished)
    => /\ pc = "done"
       /\ TopLeftLeading
       /\ \A k \in 0..(border_width - 1):
              /\ RowEq(ret, border_width + arr.nr + k, border_width,
                       arr, arr.nr - stride + (k % stride))
              /\ ColEq(ret, border_width + arr.nc + k, border_width,
                       arr, arr.nc - stride + (k % stride))

C8_Witness ==
    /\ BorderDone /\ StridedBorder
    /\ stride = 2 /\ border_width = 3
    /\ arr = ArangeGrid(3, 3)

\* C9: in add_border_2d with 1 <= stride <= min(rows, cols) and b >= 1 the
\* left and right passes run last over the full height, so in the result,
\* for every row i (corner rows included) and 0 <= j < b:
\* out[i][j] = out[i][b + (j mod stride)] and
\* out[i][b + cols + j] = out[i][b + cols - stride + (j mod stride)];
\* no corner cell keeps the zero of the initialisation.
C9_ColumnPassOwnsCorners ==
    (StridedBorder /\ Finished)
    => /\ pc = "done"
       /\ \A i \in 0..(arr.nr + 2 * border_width - 1), j \in 0..(border_width - 1):
              /\ Cell(ret, i, j) = Cell(ret, i, border_width + (j % stride))
              /\ Cell(ret, i, border_width + arr.nc + j) =
                     Cell(ret, i, border_width + arr.nc - stride + (j % stride))
              /\ (i < border_width \/ i >= border_width + arr.nr)
                     => /\ Cell(ret, i, j) # 0
                        /\ Cell(ret, i, border_width + arr.nc + j) # 0

C9_Witness ==
    /\ BorderDone /\ StridedBorder
    /\ stride = 2 /\ border_width = 2
    /\ arr = ArangeGrid(3, 3)
    /\ Cell(ret, 0, 0) = Cell(arr, 0, 0)

\* C10: for an in-range shift (sr, sc) and 0 <= stride <= min(rows, cols),
\* the result of shift_2d (row pass, then column pass) equals the column
\* shift followed by the row shift: shift_2d(shift_2d(g, (0, sc)), (sr, 0)).
C10_AxisOrder ==
    (/\ op = "shift_2d" /\ Finished /\ InRange
     /\ 0 <= stride /\ stride <= Min2(arr.nr, arr.nc))
    => /\ pc = "done"
       /\ LET c == shift_2d(arr, <<0, shifts[2]>>, stride)
          IN  /\ c.ok
              /\ LET r == shift_2d(c.g, <<shifts[1], 0>>, stride)
                 IN  r.ok /\ r.g = ret

C10_Witness ==
    /\ ShiftDone /\ InRange
    /\ shifts[1] > 0 /\ shifts[2] < 0
    /\ stride = 2
    /\ arr = ArangeGrid(3, 3)

====
